---- MODULE Spec2Model ----
(***************************************************************************)
(* Model of src/models/game.js: the Minesweeper game snapshot, the         *)
(* handlers restart, beginRestart, beginUncoverTile, uncoverTile and       *)
(* flagTile, and the generator load.  A handler returns a partial snapshot *)
(* that is merged into the previous one; fields a handler does not return  *)
(* keep their value, and a handler that throws changes nothing.            *)
(***************************************************************************)
EXTENDS Integers, FiniteSets, Sequences, TLC

VARIABLES
  props,          \* the props handed to every handler: {difficultyID, settings}, settings optional
  gameState,      \* snapshot.gameState
  columns,        \* snapshot.columns
  rows,           \* snapshot.rows
  board,          \* snapshot.board: <<rowIndex, colIndex>> -> [bombState, userState]
  proximities,    \* snapshot.proximities: <<rowIndex, colIndex>> -> count
  bombsCount,     \* snapshot.bombsCount
  uncoveredCount, \* snapshot.uncoveredCount
  flagsCount,     \* snapshot.flagsCount
  movesCount,     \* snapshot.movesCount
  startedAt,      \* snapshot.startedAt (Null or a time)
  finishedAt,     \* snapshot.finishedAt (Null or a time)
  returned,       \* whether the handler called last returned a change (FALSE: it returned nothing)
  thrown,         \* the error the handler called last threw, or NoError
  tween,          \* the running load generator: <<>> or <<[prev, next, frame]>>
  loop            \* the uncoverTile call in progress, when its loop is followed
                  \* turn by turn: <<>> or <<[rowIndex, colIndex, board, ended]>>

vars == <<props, gameState, columns, rows, board, proximities, bombsCount,
          uncoveredCount, flagsCount, movesCount, startedAt, finishedAt, returned,
          thrown, tween, loop>>

\* The snapshot proper: everything but the props and the record of the last call.
snapshot == <<gameState, columns, rows, board, proximities, bombsCount,
              uncoveredCount, flagsCount, movesCount, startedAt, finishedAt>>

----------------------------------------------------------------------------
\* Bounds of the model.

\* Boards have at most MaxTiles tiles (columns * rows <= MaxTiles).
MaxTiles == 4
\* Reveals are counted up to MaxMoves.
MaxMoves == 2
\* Flags are placed while flagsCount < MaxFlags.
MaxFlags == 1
\* Date.now() returns a time in 1..MaxClock.
MaxClock == 1

\* bombOdds as fractions <<numerator, denominator>>, all exact in binary floating point.
BombOddsValues == {<<0, 1>>, <<1, 8>>, <<1, 2>>, <<1, 1>>}

Settings ==
  {s \in [columns : 1..MaxTiles, rows : 1..MaxTiles, bombOdds : BombOddsValues] :
     s.columns * s.rows <= MaxTiles}

Times == 1..MaxClock

----------------------------------------------------------------------------
\* Values (src/models/values.js, imported at game.js:3).

Null == 0

blank == "blank"
bomb == "bomb"

covered == "covered"
open == "open"
flag == "flag"
hitBomb == "hitBomb"

fresh == "fresh"
playing == "playing"
beginningMove == "beginningMove"
gameOver == "gameOver"
winner == "winner"
restarting == "restarting"

gameStates == {fresh, playing, beginningMove, gameOver, winner, restarting}

\* difficulties (src/models/values.js): difficulty identifier -> settings.
difficulties ==
  [beginner |-> [columns |-> 1, rows |-> 1, bombOdds |-> <<1, 8>>],
   expert   |-> [columns |-> 2, rows |-> 1, bombOdds |-> <<1, 2>>]]

\* What a handler call can throw.
NoError == "none"
UnknownDifficulty == "Error: Unknown difficulty"
TypeError == "TypeError"

\* difficultyID values without an entry in the difficulty table.
customID == "custom"
unknownID == "unknown"

\* The props of a game whose settings are given explicitly.
SettingsProps == [difficultyID : {customID}, settings : Settings]

\* Explicit settings of the props a game can be switched to.
OverrideSettings == {[columns |-> 1, rows |-> 1, bombOdds |-> <<0, 1>>]}

\* The props of a game whose difficulty is switched: a difficultyID, known or
\* not, alone or with explicit settings.
DifficultyProps ==
  LET ids == DOMAIN difficulties \cup {unknownID}
  IN  [difficultyID : ids] \cup [difficultyID : ids, settings : OverrideSettings]

----------------------------------------------------------------------------
\* Helpers.

\* The cells of a grid of r rows and c columns, zero-based.
Cells(r, c) == (0..(r - 1)) \X (0..(c - 1))

\* Math.round(bombOdds * tilesCount): the nearest integer, halves rounded up.
MathRound(odds, tilesCount) ==
  (2 * odds[1] * tilesCount + odds[2]) \div (2 * odds[2])

\* Subsets of S with exactly n elements.
SubsetsOfSize(S, n) == {T \in SUBSET S : Cardinality(T) = n}

\* allDirections (src/models/calculations.js): the eight neighbour offsets.
allDirections ==
  << <<-1, -1>>, <<-1, 0>>, <<-1, 1>>,
     << 0, -1>>,            << 0, 1>>,
     << 1, -1>>, << 1, 0>>, << 1, 1>> >>

\* countProximities (src/models/calculations.js): for every cell the number of
\* bombs among its in-bounds neighbours, whether or not the cell holds a bomb.
countProximities(b) ==
  [p \in DOMAIN b |->
     Cardinality({i \in 1..Len(allDirections) :
        LET q == <<p[1] + allDirections[i][1], p[2] + allDirections[i][2]>>
        IN  q \in DOMAIN b /\ b[q].bombState = bomb})]

----------------------------------------------------------------------------
\* restart (game.js:6-52).

\* Faulty variant of restartThrows: explicit settings are not looked at.
restartThrowsWithoutEntry(p) ==
  p.difficultyID \notin DOMAIN difficulties

\* game.js:10-16: restart throws when it is given no settings and the
\* difficulty table has no entry for difficultyID.
restartThrows(p) ==
  /\ "settings" \notin DOMAIN p
  /\ p.difficultyID \notin DOMAIN difficulties

\* game.js:10-12, 17: the settings restart builds the board from.
settingsFor(p) ==
  IF "settings" \in DOMAIN p THEN p.settings ELSE difficulties[p.difficultyID]

\* game.js:19
tilesCountOf(settings) == settings.columns * settings.rows

\* game.js:20
bombsCountOf(settings) == MathRound(settings.bombOdds, tilesCountOf(settings))

\* game.js:22-24: shuffle() may return any arrangement of bombsCount trues and
\* tilesCount - bombsCount falses; an arrangement is the set of indices holding true.
shuffledBombsChoices(settings) ==
  SubsetsOfSize(0..(tilesCountOf(settings) - 1), bombsCountOf(settings))

\* game.js:30: the index read for the tile at (rowIndex, columnIndex).
shuffledIndex(settings, rowIndex, columnIndex) ==
  rowIndex * settings.rows + columnIndex

\* game.js:26-36: an index past the end of the array reads undefined, which is falsy.
restartBoard(settings, shuffledBombs) ==
  [p \in Cells(settings.rows, settings.columns) |->
     [bombState |-> IF shuffledIndex(settings, p[1], p[2]) \in shuffledBombs
                    THEN bomb ELSE blank,
      userState |-> covered]]

\* Every board restart(settings) can return.
restartBoards(settings) ==
  {restartBoard(settings, sb) : sb \in shuffledBombsChoices(settings)}

\* Faulty variant of RestartWith: flagsCount is not among the returned fields.
RestartWithKeepingFlags(settings) ==
  /\ gameState' = fresh
  /\ columns' = settings.columns
  /\ rows' = settings.rows
  /\ bombsCount' = bombsCountOf(settings)
  /\ uncoveredCount' = 0
  /\ flagsCount' = flagsCount
  /\ movesCount' = 0
  /\ startedAt' = Null
  /\ board' \in restartBoards(settings)
  /\ proximities' = countProximities(board')

\* game.js:17-51: the fields restart returns (finishedAt is not among them),
\* for any of the boards the shuffle can give.
RestartWith(settings) ==
  /\ gameState' = fresh
  /\ columns' = settings.columns
  /\ rows' = settings.rows
  /\ bombsCount' = bombsCountOf(settings)
  /\ uncoveredCount' = 0
  /\ flagsCount' = 0
  /\ movesCount' = 0
  /\ startedAt' = Null
  /\ board' \in restartBoards(settings)
  /\ proximities' = countProximities(board')

\* initial (game.js:54): the first snapshot, restart(props); finishedAt is
\* absent, no generator runs and no call is in progress.
initial(p) ==
  /\ props = p
  /\ ~restartThrows(p)
  /\ \E b \in restartBoards(settingsFor(p)) :
       /\ gameState = fresh
       /\ columns = settingsFor(p).columns
       /\ rows = settingsFor(p).rows
       /\ board = b
       /\ proximities = countProximities(b)
       /\ bombsCount = bombsCountOf(settingsFor(p))
       /\ uncoveredCount = 0
       /\ flagsCount = 0
       /\ movesCount = 0
       /\ startedAt = Null
  /\ finishedAt = Null
  /\ returned = TRUE
  /\ thrown = NoError
  /\ tween = <<>>
  /\ loop = <<>>

\* A game mounted with explicit settings.
Init == \E p \in SettingsProps : initial(p)

\* beginRestart (game.js:82)
BeginRestart ==
  /\ gameState' = restarting
  /\ returned' = TRUE
  /\ thrown' = NoError
  /\ UNCHANGED <<props, columns, rows, board, proximities, bombsCount,
                 uncoveredCount, flagsCount, movesCount, startedAt, finishedAt,
                 tween, loop>>

\* completeRestart (game.js:83) = restart(props): it throws, and nothing is
\* merged, when restart has no settings to use.
CompleteRestart ==
  IF restartThrows(props)
  THEN /\ thrown' = UnknownDifficulty
       /\ returned' = FALSE
       /\ UNCHANGED <<props, snapshot, tween, loop>>
  ELSE /\ returned' = TRUE
       /\ thrown' = NoError
       /\ UNCHANGED <<props, finishedAt, tween, loop>>
       /\ RestartWith(settingsFor(props))

----------------------------------------------------------------------------
\* Reveal and flag helpers (game.js:85-115).

\* changeItemToUncovered (game.js:101-107)
changeItemToUncovered(item) ==
  IF item.bombState = bomb
  THEN [item EXCEPT !.userState = hitBomb]
  ELSE [item EXCEPT !.userState = open]

\* Faulty variant of canPlayForGameState: finished games stay playable.
canPlayUnlessRestarting(gs) ==
  gs # restarting

\* canPlayForGameState (game.js:109-111)
canPlayForGameState(gs) ==
  gs = fresh \/ gs = playing \/ gs = beginningMove

\* Faulty variant of canExpandTile: every bomb-free tile expands.
canExpandTileIgnoringProximity(item, proximity) ==
  item.bombState = blank

\* canExpandTile (game.js:113-115)
canExpandTile(item, proximity) ==
  item.bombState = blank /\ proximity = 0

\* Faulty variant of flagChangeItem: a tile that is not flagged becomes flagged
\* whatever its userState.
flagChangeItemOnAnyTile(item) ==
  IF item.userState = flag THEN [item EXCEPT !.userState = covered]
  ELSE [item EXCEPT !.userState = flag]

\* flagTile's changeItem callback (game.js:216-224)
flagChangeItem(item) ==
  IF item.userState = covered THEN [item EXCEPT !.userState = flag]
  ELSE IF item.userState = flag THEN [item EXCEPT !.userState = covered]
  ELSE item

\* Faulty variant of flagChangeBy: a toggle on an open or hitBomb tile is counted
\* as a new flag.
flagChangeByOnAnyTile(item) ==
  IF item.userState = flag THEN -1 ELSE 1

\* noticeChange (game.js:210-213): the amount flagTile adds to flagsCount.
flagChangeBy(item) ==
  IF item.userState = covered THEN 1
  ELSE IF item.userState = flag THEN -1
  ELSE 0

\* changeBoardItem (game.js:85-95), applied with flagTile's changeItem.
changeBoardItem(b, rowIndex, colIndex) ==
  [p \in DOMAIN b |->
     IF rowIndex = p[1] /\ colIndex = p[2] THEN flagChangeItem(b[p]) ELSE b[p]]

\* beginUncoverTile (game.js:117-130)
BeginUncoverTile ==
  IF ~canPlayForGameState(gameState)
  THEN /\ returned' = FALSE
       /\ thrown' = NoError
       /\ UNCHANGED <<props, snapshot, tween, loop>>
  ELSE /\ \E now \in Times :
            startedAt' = IF gameState = fresh THEN now ELSE startedAt
       /\ gameState' = beginningMove
       /\ returned' = TRUE
       /\ thrown' = NoError
       /\ UNCHANGED <<props, columns, rows, board, proximities, bombsCount,
                      uncoveredCount, flagsCount, movesCount, finishedAt,
                      tween, loop>>

\* flagTile (game.js:209-227)
FlagTile(rowIndex, colIndex) ==
  /\ <<rowIndex, colIndex>> \in DOMAIN board
  /\ board[<<rowIndex, colIndex>>].userState = covered => flagsCount < MaxFlags
  /\ board' = changeBoardItem(board, rowIndex, colIndex)
  /\ flagsCount' = flagsCount + flagChangeBy(board[<<rowIndex, colIndex>>])
  /\ returned' = TRUE
  /\ thrown' = NoError
  /\ UNCHANGED <<props, gameState, columns, rows, proximities, bombsCount,
                 uncoveredCount, movesCount, startedAt, finishedAt, tween, loop>>

----------------------------------------------------------------------------
\* uncoverTile (game.js:132-207).

\* Faulty variant of firstMoveBoards: the first-move loop is skipped.
firstMoveBoardsKeepingBoard(b, rowIndex, colIndex) == {b}

\* game.js:139-146: the board the reveal proceeds with.  On the first move, while
\* the targeted tile holds a bomb the board is replaced by restart(props).board;
\* the loop can only end on a board whose targeted tile holds no bomb, and every
\* such board restart can return is a possible outcome.  When no such board
\* exists the loop never ends and the handler returns nothing at all.
firstMoveBoards(b, rowIndex, colIndex) ==
  IF movesCount = 0 /\ b[<<rowIndex, colIndex>>].bombState = bomb
  THEN {nb \in restartBoards(settingsFor(props)) :
          nb[<<rowIndex, colIndex>>].bombState # bomb}
  ELSE {b}

\* game.js:140-142: what the loop throws instead of ending.  restart(props)
\* throws when it has no settings to use; when the board it returns has no
\* tile at the target (props name other dimensions than the snapshot's), the
\* next test of the loop reads a property of undefined.
firstMoveThrows(b, rowIndex, colIndex) ==
  IF movesCount = 0 /\ b[<<rowIndex, colIndex>>].bombState = bomb
  THEN IF restartThrows(props) THEN UnknownDifficulty
       ELSE IF <<rowIndex, colIndex>> \notin
                 Cells(settingsFor(props).rows, settingsFor(props).columns)
            THEN TypeError
            ELSE NoError
  ELSE NoError

\* game.js:144: the proximities used with the board b the loop ended on.
firstMoveProximities(b) ==
  IF b = board THEN proximities ELSE countProximities(b)

\* uncoverInNewBoard (game.js:151-184) and its forEach over allDirections
\* (game.js:177-182).  st holds the closure's mutable variables: newBoard,
\* uncoveredCount, flagsCount and gameOver; st.thrown records that game.js:156-158
\* read a tile newBoard does not have (a property of undefined), which ends
\* the whole call.
RECURSIVE uncoverInNewBoard(_, _, _, _)
RECURSIVE expandDirections(_, _, _, _, _)

uncoverInNewBoard(st, prox, rowIndex, colIndex) ==
  IF st.gameOver \/ st.thrown THEN st
  ELSE IF <<rowIndex, colIndex>> \notin DOMAIN st.newBoard
  THEN [st EXCEPT !.thrown = TRUE]
  ELSE
    LET prevItem == st.newBoard[<<rowIndex, colIndex>>]
        proximity == prox[<<rowIndex, colIndex>>]
    IN
    IF prevItem.userState = open THEN st
    ELSE
      LET newItem == changeItemToUncovered(prevItem)
          hit == [st EXCEPT !.newBoard[<<rowIndex, colIndex>>] = newItem,
                            !.gameOver = (newItem.userState = hitBomb)]
      IN
      IF hit.gameOver THEN hit
      ELSE
        LET counted ==
              [hit EXCEPT !.uncoveredCount = @ + 1,
                          !.flagsCount = IF prevItem.userState = flag THEN @ - 1 ELSE @]
        IN
        IF canExpandTile(newItem, proximity)
        THEN expandDirections(counted, prox, rowIndex, colIndex, 1)
        ELSE counted

expandDirections(st, prox, rowIndex, colIndex, i) ==
  IF i > Len(allDirections) THEN st
  ELSE
    LET r == rowIndex + allDirections[i][1]
        c == colIndex + allDirections[i][2]
        next == IF r < rows /\ r >= 0 /\ c < columns /\ c >= 0
                THEN uncoverInNewBoard(st, prox, r, c)
                ELSE st
    IN expandDirections(next, prox, rowIndex, colIndex, i + 1)

\* game.js:188
wonWith(newUncoveredCount) ==
  newUncoveredCount + bombsCount = columns * rows

\* Faulty variant of newGameStateFor: a win is not detected.
newGameStateNeverWinner(isGameOver, won) ==
  IF isGameOver THEN gameOver ELSE playing

\* game.js:190-196
newGameStateFor(isGameOver, won) ==
  IF isGameOver THEN gameOver
  ELSE IF won THEN winner
  ELSE playing

\* Faulty variant of movesCountAfterReveal: reveals are not counted.
movesCountAfterUncountedReveal(st) == movesCount

\* Faulty variant of movesCountAfterReveal: a reveal that changes no tile is not
\* counted.
movesCountAfterChangingReveal(st) ==
  IF st.newBoard # board THEN movesCount + 1 ELSE movesCount

\* game.js:204
movesCountAfterReveal(st) == movesCount + 1

\* game.js:198-206: the fields uncoverTile returns.
UncoverResult(st, prox) ==
  /\ movesCount' = movesCountAfterReveal(st)
  /\ uncoveredCount' = st.uncoveredCount
  /\ flagsCount' = st.flagsCount
  /\ gameState' = newGameStateFor(st.gameOver, wonWith(st.uncoveredCount))
  /\ board' = st.newBoard
  /\ proximities' = prox
  /\ \E now \in Times :
       finishedAt' = IF st.gameOver \/ wonWith(st.uncoveredCount) THEN now ELSE Null

\* game.js:148-206 on the board b the loop ended on: the merged result, or
\* nothing when the traversal threw.
RevealOn(b, rowIndex, colIndex) ==
  LET prox == firstMoveProximities(b)
      st == uncoverInNewBoard(
              [newBoard |-> b, uncoveredCount |-> uncoveredCount,
               flagsCount |-> flagsCount, gameOver |-> FALSE, thrown |-> FALSE],
              prox, rowIndex, colIndex)
  IN \/ /\ thrown' = NoError
        /\ returned' = TRUE
        /\ UncoverResult(st, prox)
        /\ ~st.thrown
     \/ /\ thrown' = TypeError
        /\ returned' = FALSE
        /\ st.thrown
        /\ UNCHANGED <<gameState, board, proximities, uncoveredCount,
                       flagsCount, movesCount, finishedAt>>

UncoverTile(rowIndex, colIndex) ==
  /\ <<rowIndex, colIndex>> \in DOMAIN board
  /\ IF ~canPlayForGameState(gameState)
     THEN /\ returned' = FALSE
          /\ thrown' = NoError
          /\ UNCHANGED <<props, snapshot, tween, loop>>
     ELSE /\ movesCount < MaxMoves
          /\ UNCHANGED <<props, columns, rows, bombsCount, startedAt, tween, loop>>
          /\ IF firstMoveThrows(board, rowIndex, colIndex) # NoError
             THEN /\ thrown' = firstMoveThrows(board, rowIndex, colIndex)
                  /\ returned' = FALSE
                  /\ UNCHANGED <<gameState, board, proximities, uncoveredCount,
                                 flagsCount, movesCount, finishedAt>>
             ELSE \E b \in firstMoveBoards(board, rowIndex, colIndex) :
                    RevealOn(b, rowIndex, colIndex)

----------------------------------------------------------------------------

Next ==
  \/ BeginRestart
  \/ CompleteRestart
  \/ BeginUncoverTile
  \/ \E p \in DOMAIN board : UncoverTile(p[1], p[2])
  \/ \E p \in DOMAIN board : FlagTile(p[1], p[2])

Spec == Init /\ [][Next]_vars

----------------------------------------------------------------------------
\* load (game.js:56-80): the props change and the generator's snapshots are
\* merged one per animation frame, between which handlers can be called.

\* game.js:66
totalFrames == 12

\* Math.round(delta * (frame / totalFrames)): the nearest integer, halves
\* rounded towards +infinity.  The table's dimensions differ by at most 1, for
\* which the floating-point product is exact.
roundedFraction(delta, frame) ==
  (2 * delta * frame + totalFrames) \div (2 * totalFrames)

\* game.js:63
columnsForFraction(prevSettings, nextSettings, frame) ==
  prevSettings.columns
    + roundedFraction(nextSettings.columns - prevSettings.columns, frame)

\* game.js:64
rowsForFraction(prevSettings, nextSettings, frame) ==
  prevSettings.rows + roundedFraction(nextSettings.rows - prevSettings.rows, frame)

\* game.js:70-74: the settings of a tween frame.
tweenSettings(prevSettings, nextSettings, frame) ==
  [columns |-> columnsForFraction(prevSettings, nextSettings, frame),
   rows |-> rowsForFraction(prevSettings, nextSettings, frame),
   bombOdds |-> nextSettings.bombOdds]

\* The component receives new props and load(next, prev) is called
\* (game.js:56-58): a generator is started when the difficultyID differs.
\* Props change only while no generator runs.
ReceiveProps(next) ==
  /\ tween = <<>>
  /\ next # props
  /\ props' = next
  /\ tween' = IF props.difficultyID # next.difficultyID
              THEN << [prev |-> props, next |-> next, frame |-> 0] >>
              ELSE <<>>
  /\ UNCHANGED <<snapshot, returned, thrown, loop>>

\* The generator is resumed (game.js:60-78).  A frame's snapshot is
\* restart({settings}) merged into the state; the last one is restart(next).
\* Reading .columns of a difficulty the table lacks throws and ends the
\* generator.
LoadFrame ==
  /\ tween # <<>>
  /\ LET g == tween[1]
     IN IF g.frame < totalFrames
        THEN IF \/ g.prev.difficultyID \notin DOMAIN difficulties
                \/ g.next.difficultyID \notin DOMAIN difficulties
             THEN /\ thrown' = TypeError
                  /\ returned' = FALSE
                  /\ tween' = <<>>
                  /\ UNCHANGED <<props, snapshot, loop>>
             ELSE /\ thrown' = NoError
                  /\ returned' = TRUE
                  /\ tween' = << [g EXCEPT !.frame = @ + 1] >>
                  /\ UNCHANGED <<props, finishedAt, loop>>
                  /\ RestartWith(tweenSettings(difficulties[g.prev.difficultyID],
                                               difficulties[g.next.difficultyID],
                                               g.frame))
        ELSE IF restartThrows(g.next)
             THEN /\ thrown' = UnknownDifficulty
                  /\ returned' = FALSE
                  /\ tween' = <<>>
                  /\ UNCHANGED <<props, snapshot, loop>>
             ELSE /\ thrown' = NoError
                  /\ returned' = TRUE
                  /\ tween' = <<>>
                  /\ UNCHANGED <<props, finishedAt, loop>>
                  /\ RestartWith(settingsFor(g.next))

\* A game mounted with a difficultyID, with or without explicit settings.
LoadInit == \E p \in DifficultyProps : initial(p)

LoadNext ==
  \/ BeginRestart
  \/ CompleteRestart
  \/ BeginUncoverTile
  \/ \E p \in DOMAIN board : UncoverTile(p[1], p[2])
  \/ \E p \in DOMAIN board : FlagTile(p[1], p[2])
  \/ \E next \in DifficultyProps : ReceiveProps(next)
  \/ LoadFrame

\* The game with changing props and the difficulty tween.
LoadSpec == LoadInit /\ [][LoadNext]_vars

----------------------------------------------------------------------------
\* uncoverTile with the loop of game.js:139-146 followed turn by turn.  The
\* call runs to completion: no other handler is called while it is in progress.
\* beginUncoverTile is not called in these games: it writes gameState and
\* startedAt only, neither of which the loop reads, and a game in
\* beginningMove is playable exactly like a fresh one (game.js:109-111).

\* Faulty variant of loopBoards: shuffle returns its argument unchanged, the
\* bombs first.
loopBoardsUnshuffled(settings) ==
  {restartBoard(settings, 0..(bombsCountOf(settings) - 1))}

\* game.js:142-143: the boards one turn of the loop can put in place of board.
loopBoards(settings) == restartBoards(settings)

\* game.js:132-137: the call starts; a game that is not playable returns at once.
EnterUncoverTile(rowIndex, colIndex) ==
  /\ loop = <<>>
  /\ <<rowIndex, colIndex>> \in DOMAIN board
  /\ IF ~canPlayForGameState(gameState)
     THEN /\ returned' = FALSE
          /\ thrown' = NoError
          /\ UNCHANGED <<props, snapshot, tween, loop>>
     ELSE /\ movesCount < MaxMoves
          /\ loop' = << [rowIndex |-> rowIndex, colIndex |-> colIndex,
                         board |-> board, ended |-> FALSE] >>
          /\ UNCHANGED <<props, snapshot, returned, thrown, tween>>

\* game.js:139-140: the tests that let the loop take another turn.
loopContinues(l) ==
  /\ movesCount = 0
  /\ <<l.rowIndex, l.colIndex>> \in DOMAIN l.board =>
       l.board[<<l.rowIndex, l.colIndex>>].bombState = bomb

\* game.js:140-145: one turn of the loop, which replaces the call's board by
\* restart(props).board, or throws.
LoopTurn ==
  /\ loop # <<>>
  /\ ~loop[1].ended
  /\ loopContinues(loop[1])
  /\ LET l == loop[1]
     IN IF <<l.rowIndex, l.colIndex>> \notin DOMAIN l.board \/ restartThrows(props)
        THEN /\ thrown' = IF <<l.rowIndex, l.colIndex>> \notin DOMAIN l.board
                          THEN TypeError ELSE UnknownDifficulty
             /\ returned' = FALSE
             /\ loop' = <<>>
             /\ UNCHANGED <<props, snapshot, tween>>
        ELSE /\ \E nb \in loopBoards(settingsFor(props)) :
                  loop' = << [l EXCEPT !.board = nb] >>
             /\ UNCHANGED <<props, snapshot, returned, thrown, tween>>

\* A turn of the loop after which the targeted tile holds no bomb.
LoopTurnToBlank ==
  /\ LoopTurn
  /\ loop' # <<>>
  /\ loop'[1].board[<<loop'[1].rowIndex, loop'[1].colIndex>>].bombState = blank

\* game.js:139-140, 146: a test fails and the loop is left.
LoopEnds ==
  /\ loop # <<>>
  /\ ~loop[1].ended
  /\ ~loopContinues(loop[1])
  /\ loop' = << [loop[1] EXCEPT !.ended = TRUE] >>
  /\ UNCHANGED <<props, snapshot, returned, thrown, tween>>

\* game.js:148-206: the traversal on the board the loop ended on, and the return.
FinishUncoverTile ==
  /\ loop # <<>>
  /\ loop[1].ended
  /\ loop' = <<>>
  /\ UNCHANGED <<props, columns, rows, bombsCount, startedAt, tween>>
  /\ RevealOn(loop[1].board, loop[1].rowIndex, loop[1].colIndex)

LoopNext ==
  \/ loop = <<>> /\ BeginRestart
  \/ loop = <<>> /\ CompleteRestart
  \/ loop = <<>> /\ \E p \in DOMAIN board : FlagTile(p[1], p[2])
  \/ \E p \in DOMAIN board : EnterUncoverTile(p[1], p[2])
  \/ LoopTurn
  \/ LoopEnds
  \/ FinishUncoverTile

\* The call in progress goes on to leave a loop whose test fails, and a shuffle
\* that can give a bomb-free target again and again eventually gives one.
LoopFairness ==
  /\ WF_vars(LoopEnds)
  /\ SF_vars(LoopTurnToBlank)

LoopSpec == Init /\ [][LoopNext]_vars /\ LoopFairness

----------------------------------------------------------------------------
\* Derived views of a snapshot, used to state the properties.

BombTiles == {p \in DOMAIN board : board[p].bombState = bomb}
BlankTiles == {p \in DOMAIN board : board[p].bombState = blank}
TilesIn(userState) == {p \in DOMAIN board : board[p].userState = userState}
CanPlay == gameState \in {fresh, playing, beginningMove}
HitBombIn(b) == \E p \in DOMAIN b : b[p].userState = hitBomb
OpenIn(b) == {p \in DOMAIN b : b[p].userState = open}

----------------------------------------------------------------------------
\* C1: the board restart returns holds exactly round(bombOdds * columns * rows)
\* bomb tiles, whatever the shuffle and whatever the board's shape, and that
\* number is the snapshot's bombsCount.  (A fresh snapshot's board is the one
\* restart returned: flagging changes no bombState.)
C1_ExactBombsOnRestart ==
  gameState = fresh =>
    /\ bombsCount = MathRound(settingsFor(props).bombOdds, columns * rows)
    /\ Cardinality(BombTiles) = MathRound(settingsFor(props).bombOdds, columns * rows)

\* C2: in every reachable state flagsCount is the number of tiles whose
\* userState is flag.
C2_FlagsCountIsFlaggedTiles ==
  flagsCount = Cardinality(TilesIn(flag))

\* C3: in every reachable state uncoveredCount <= columns * rows - bombsCount.
C3_UncoveredAtMostBlankTiles ==
  uncoveredCount <= columns * rows - bombsCount

\* C4: the first reveal of a game never leaves a tile in hitBomb and never
\* yields gameOver, provided bombsCount < columns * rows.  movesCount = 1 holds
\* from the first reveal until the second reveal or the next restart, and no
\* handler other than uncoverTile creates or removes a hitBomb tile.
C4_FirstRevealNeverHitsBomb ==
  (movesCount = 1 /\ bombsCount < columns * rows) =>
    (gameState # gameOver /\ TilesIn(hitBomb) = {})

\* A first reveal has been made on a tile that held a bomb: the flag placed
\* before it is gone from the regenerated board while flagsCount still counts it.
C4_Witness ==
  /\ movesCount = 1
  /\ bombsCount < columns * rows
  /\ BombTiles # {}
  /\ TilesIn(open) # {}
  /\ flagsCount = 1
  /\ TilesIn(flag) = {}
  /\ gameState \in {playing, winner}

\* The userState transitions the specification's data model lists.
C5_StatedTransition(from, to) ==
  \/ to = from
  \/ from = covered /\ to \in {open, flag, hitBomb}
  \/ from = flag /\ to = covered

\* The same with flag->open and flag->hitBomb.
C5_CodeTransition(from, to) ==
  \/ to = from
  \/ from = covered /\ to \in {open, flag, hitBomb}
  \/ from = flag /\ to \in {covered, open, hitBomb}

\* C5 as stated: within one game (no restart in between) every operation leaves
\* a tile's userState unchanged or moves it along covered->open, covered->flag,
\* covered->hitBomb or flag->covered; no tile goes from flag to open or hitBomb,
\* and open and hitBomb tiles never change.
C5_OnlyStatedTransitions ==
  [][\/ /\ DOMAIN board' = DOMAIN board
        /\ \A p \in DOMAIN board :
             C5_StatedTransition(board[p].userState, board'[p].userState)
     \/ CompleteRestart]_vars

\* C5 as amended: within one game every operation leaves a tile's userState
\* unchanged or moves it along covered->open, covered->flag, covered->hitBomb,
\* flag->covered, flag->open or flag->hitBomb (a reveal uncovers a flagged tile
\* like a covered one); open and hitBomb tiles never change.
C5_OnlyCodeTransitions ==
  [][\/ /\ DOMAIN board' = DOMAIN board
        /\ \A p \in DOMAIN board :
             C5_CodeTransition(board[p].userState, board'[p].userState)
     \/ CompleteRestart]_vars

\* A game in which tiles were opened, a bomb was hit and a tile is flagged.
C5_Witness ==
  /\ gameState = gameOver
  /\ TilesIn(hitBomb) # {}
  /\ TilesIn(open) # {}
  /\ TilesIn(flag) # {}

\* C6: a reveal made in a playable state sets gameState to gameOver if a bomb
\* was hit during the call, otherwise to winner if uncoveredCount + bombsCount =
\* columns * rows after the call, otherwise to playing.
C6_RevealSetsGameState ==
  [][\A p \in DOMAIN board :
       (CanPlay /\ UncoverTile(p[1], p[2])) =>
         gameState' = IF HitBombIn(board') THEN gameOver
                      ELSE IF uncoveredCount' + bombsCount' = columns' * rows'
                           THEN winner
                           ELSE playing]_vars

\* The second reveal of a game hit a bomb.
C6_Witness ==
  /\ gameState = gameOver
  /\ movesCount = 2
  /\ Cardinality(TilesIn(hitBomb)) = 1
  /\ finishedAt # Null

\* Every bomb-free tile of the board is open.
C7_AllBlankOpen == BlankTiles \subseteq TilesIn(open)

\* C7: gameState is winner only with uncoveredCount + bombsCount =
\* columns * rows, and whenever every bomb-free tile of the board is open the
\* game has been won: it is never left in playing.
C7_WinnerExactlyWhenAllBlankOpen ==
  /\ gameState = winner => uncoveredCount + bombsCount = columns * rows
  /\ C7_AllBlankOpen => gameState # playing

\* Two distinct cells that touch, diagonals included.
C8_Adjacent(p, q) ==
  /\ p # q
  /\ p[1] - q[1] \in {-1, 0, 1}
  /\ p[2] - q[2] \in {-1, 0, 1}

\* The least set holding S and every neighbour of its bomb-free tiles of
\* proximity 0.
RECURSIVE C8_Closure(_)
C8_Closure(S) ==
  LET T == S \cup {q \in DOMAIN board :
                     \E z \in S : /\ board[z].bombState = blank
                                  /\ proximities[z] = 0
                                  /\ C8_Adjacent(z, q)}
  IN IF T = S THEN S ELSE C8_Closure(T)

C8_Region(p) == C8_Closure({p})

\* C8: revealing a covered bomb-free tile opens exactly the tiles reachable from
\* it by 8-directional steps that leave only bomb-free tiles of proximity 0 (the
\* tile alone when its proximity is not 0), changes no other tile, and adds the
\* number of newly opened tiles to uncoveredCount.
C8_FloodFillOpensRegion ==
  [][\A p \in DOMAIN board :
       (/\ CanPlay
        /\ board[p].userState = covered
        /\ board[p].bombState = blank
        /\ UncoverTile(p[1], p[2]))
       => /\ OpenIn(board') = OpenIn(board) \cup C8_Region(p)
          /\ \A q \in DOMAIN board : q \notin C8_Region(p) => board'[q] = board[q]
          /\ proximities[p] # 0 => OpenIn(board') = OpenIn(board) \cup {p}
          /\ uncoveredCount' =
               uncoveredCount + Cardinality(C8_Region(p) \ OpenIn(board))]_vars

\* One reveal opened a tile of proximity 0 and a bordering tile of proximity 1
\* and left a bomb-free tile beyond the bomb covered.
C8_Witness ==
  /\ movesCount = 1
  /\ \E p \in OpenIn(board) : proximities[p] = 0
  /\ \E p \in OpenIn(board) : proximities[p] > 0
  /\ \E p \in BlankTiles : board[p].userState = covered
  /\ uncoveredCount = Cardinality(OpenIn(board))

\* C9: when gameState is gameOver, winner or restarting, beginUncoverTile and
\* uncoverTile return no change: every field of the snapshot keeps its value.
C9_NoOpWhenNotPlayable ==
  [][(/\ gameState \in {gameOver, winner, restarting}
      /\ \/ BeginUncoverTile
         \/ \E p \in DOMAIN board : UncoverTile(p[1], p[2]))
     => UNCHANGED snapshot]_vars

\* A reveal was attempted after the game was lost and returned nothing.
C9_Witness ==
  /\ gameState = gameOver
  /\ ~returned
  /\ TilesIn(covered) # {}

\* C10: movesCount is 0 after restart, grows by exactly 1 on every reveal made
\* in a playable state whatever the outcome, and is not changed by flagTile or
\* beginUncoverTile.
C10_MovesCountCountsReveals ==
  [][/\ movesCount' = 0 \/ ~CompleteRestart
     /\ \/ movesCount' = movesCount + 1
        \/ ~CanPlay
        \/ \A p \in DOMAIN board : ~UncoverTile(p[1], p[2])
     /\ \/ movesCount' = movesCount
        \/ /\ ~BeginUncoverTile
           /\ \A p \in DOMAIN board : ~FlagTile(p[1], p[2])]_vars

\* The second reveal of a game targeted the tile the first one opened.
C10_Witness ==
  /\ movesCount = 2
  /\ gameState = playing
  /\ Cardinality(OpenIn(board)) = 1
  /\ uncoveredCount = 1

\* C11 as stated: revealing a tile that is already open changes no tile of the
\* board and none of uncoveredCount, flagsCount and movesCount.
C11_OpenTileRevealChangesNothing ==
  [][\A p \in DOMAIN board :
       (board[p].userState = open /\ UncoverTile(p[1], p[2])) =>
         /\ board' = board
         /\ uncoveredCount' = uncoveredCount
         /\ flagsCount' = flagsCount
         /\ movesCount' = movesCount]_vars

\* C11 as amended: revealing a tile that is already open changes no tile of the
\* board and neither uncoveredCount nor flagsCount; in a playable state it is
\* counted as a move (movesCount grows by 1), otherwise movesCount is unchanged.
C11_OpenTileRevealOnlyCountsMove ==
  [][\A p \in DOMAIN board :
       (board[p].userState = open /\ UncoverTile(p[1], p[2])) =>
         /\ board' = board
         /\ uncoveredCount' = uncoveredCount
         /\ flagsCount' = flagsCount
         /\ movesCount' = IF CanPlay THEN movesCount + 1 ELSE movesCount]_vars

\* The open tile of a game with a flagged tile was revealed a second time.
C11_Witness ==
  /\ movesCount = 2
  /\ gameState = playing
  /\ uncoveredCount = 1
  /\ Cardinality(OpenIn(board)) = 1
  /\ flagsCount = 1
  /\ Cardinality(TilesIn(flag)) = 1

\* C12: flagTile, in every gameState, turns a covered target into flag with
\* flagsCount + 1, a flag target into covered with flagsCount - 1, and leaves
\* an open or hitBomb target and flagsCount unchanged; every other tile, every
\* bombState, gameState, uncoveredCount, movesCount and proximities keep their
\* values.
C12_FlagTileTouchesOneTile ==
  [][\A p \in DOMAIN board :
       FlagTile(p[1], p[2]) =>
         /\ DOMAIN board' = DOMAIN board
         /\ \A q \in DOMAIN board : q # p => board'[q] = board[q]
         /\ board'[p].bombState = board[p].bombState
         /\ board[p].userState = covered =>
              board'[p].userState = flag /\ flagsCount' = flagsCount + 1
         /\ board[p].userState = flag =>
              board'[p].userState = covered /\ flagsCount' = flagsCount - 1
         /\ board[p].userState \in {open, hitBomb} =>
              board'[p] = board[p] /\ flagsCount' = flagsCount
         /\ UNCHANGED <<gameState, uncoveredCount, movesCount, proximities>>]_vars

\* A flagged tile next to an open tile and a hitBomb tile in a lost game.
C12_Witness ==
  /\ gameState \in {gameOver, restarting}
  /\ TilesIn(flag) # {}
  /\ TilesIn(open) # {}
  /\ TilesIn(hitBomb) # {}
  /\ flagsCount = Cardinality(TilesIn(flag))

\* C13: finishedAt is set when gameState is gameOver or winner, and is null when
\* gameState is fresh, beginningMove or playing (so a game restarted after a
\* finished game carries no finish time).
C13_FinishedAtFollowsGameState ==
  /\ gameState \in {gameOver, winner} => finishedAt # Null
  /\ gameState \in {fresh, beginningMove, playing} => finishedAt = Null

\* C14: in every state with movesCount >= 1 startedAt is non-null, and reveals
\* of the same game after the first leave startedAt as it is.
C14_StartedAtStampedOnce ==
  [][/\ movesCount' >= 1 => startedAt' # Null
     /\ (movesCount >= 1 /\ movesCount' > movesCount) => startedAt' = startedAt]_vars

\* C15: restart yields gameState fresh, uncoveredCount = flagsCount =
\* movesCount = 0, startedAt = null and every tile covered, as the first
\* snapshot and from any prior state; and in every state with gameState fresh,
\* movesCount = 0, uncoveredCount = 0 and startedAt = null.
C15_RestartYieldsFreshGame ==
  /\ gameState = fresh /\ flagsCount = 0 /\ TilesIn(covered) = DOMAIN board
  /\ [](gameState = fresh =>
          movesCount = 0 /\ uncoveredCount = 0 /\ startedAt = Null)
  /\ [][\/ /\ gameState' = fresh
           /\ uncoveredCount' = 0
           /\ flagsCount' = 0
           /\ movesCount' = 0
           /\ startedAt' = Null
           /\ \A q \in DOMAIN board' : board'[q].userState = covered
        \/ ~CompleteRestart]_vars

\* A fresh game, nothing revealed or flagged, restarted after a finished game.
C15_Witness ==
  /\ gameState = fresh
  /\ finishedAt # Null
  /\ flagsCount = 0
  /\ TilesIn(covered) = DOMAIN board

\* The tiles a step changes from covered or flag to open or hitBomb.
C18_Uncovered ==
  {q \in DOMAIN board :
     /\ board[q].userState \in {covered, flag}
     /\ board'[q].userState \in {open, hitBomb}}

\* C18: a reveal adds to uncoveredCount the number of tiles it changes from
\* covered or flag to open or hitBomb, the tile on which a bomb is hit included,
\* and takes from flagsCount the number of those tiles that were flagged.
C18_EveryUncoveredTileCounted ==
  [][\A p \in DOMAIN board :
       (CanPlay /\ UncoverTile(p[1], p[2])) =>
         /\ uncoveredCount' = uncoveredCount + Cardinality(C18_Uncovered)
         /\ flagsCount' = flagsCount
              - Cardinality({q \in C18_Uncovered : board[q].userState = flag})]_vars

\* C20 as stated: a reveal ends in gameOver only if the targeted tile holds a
\* bomb; in every gameOver state exactly one tile is hitBomb, in every other
\* state no tile is hitBomb; no bomb tile is ever open.
C20_HitBombOnlyInGameOver ==
  /\ [](/\ gameState = gameOver => Cardinality(TilesIn(hitBomb)) = 1
        /\ gameState # gameOver => TilesIn(hitBomb) = {}
        /\ BombTiles \cap OpenIn(board) = {})
  /\ [][\A p \in DOMAIN board :
          \/ gameState' # gameOver
          \/ gameState = gameOver
          \/ ~UncoverTile(p[1], p[2])
          \/ board'[p].bombState = bomb /\ board'[p].userState = hitBomb]_vars

\* C20 as amended: as stated, except that the restarting state entered from a
\* lost game still shows the one hitBomb tile.
C20_HitBombOnlyAfterGameOver ==
  /\ [](/\ gameState = gameOver => Cardinality(TilesIn(hitBomb)) = 1
        /\ gameState \notin {gameOver, restarting} => TilesIn(hitBomb) = {}
        /\ gameState = restarting => Cardinality(TilesIn(hitBomb)) <= 1
        /\ BombTiles \cap OpenIn(board) = {})
  /\ [][\A p \in DOMAIN board :
          \/ gameState' # gameOver
          \/ gameState = gameOver
          \/ ~UncoverTile(p[1], p[2])
          \/ board'[p].bombState = bomb /\ board'[p].userState = hitBomb]_vars

\* A lost game in which the flood fill opened more than one tile before the
\* second reveal hit a bomb.
C20_Witness ==
  /\ gameState = gameOver
  /\ Cardinality(TilesIn(hitBomb)) = 1
  /\ Cardinality(OpenIn(board)) >= 2
  /\ movesCount = 2

\* C16: the first-move loop ends whenever bombsCount < columns * rows, for
\* every targeted tile and every board shape; it never ends on a board whose
\* targeted tile holds a bomb, so it cannot end when every board restart can
\* give has a bomb there.
C16_LoopTerminates ==
  /\ (loop # <<>> /\ bombsCount < columns * rows) ~> (loop # <<>> /\ loop[1].ended)
  /\ [][(loop # <<>> /\ ~loop[1].ended /\ loopContinues(loop[1])) =>
          /\ loop' # <<>>
          /\ ~loop'[1].ended
          /\ (\A nb \in restartBoards(settingsFor(props)) :
                nb[<<loop[1].rowIndex, loop[1].colIndex>>].bombState = bomb)
             => loopContinues(loop'[1])]_vars

\* The loop has replaced the board and the targeted tile now holds no bomb.
C16_Witness ==
  /\ loop # <<>>
  /\ loop[1].ended
  /\ movesCount = 0
  /\ bombsCount < columns * rows
  /\ loop[1].board # board
  /\ board[<<loop[1].rowIndex, loop[1].colIndex>>].bombState = bomb
  /\ loop[1].board[<<loop[1].rowIndex, loop[1].colIndex>>].bombState = blank

\* C17: restart called with no settings and a difficultyID the difficulty
\* table lacks throws and no field of the snapshot changes; called with
\* explicit settings, or with a difficultyID of the table, it does not throw.
C17_RestartThrowsOnUnknownDifficulty ==
  [][\/ /\ "settings" \notin DOMAIN props
        /\ props.difficultyID \notin DOMAIN difficulties
        /\ thrown' = UnknownDifficulty
        /\ UNCHANGED snapshot
     \/ /\ "settings" \in DOMAIN props \/ props.difficultyID \in DOMAIN difficulties
        /\ thrown' = NoError
        /\ gameState' = fresh
     \/ ~CompleteRestart]_vars

\* restart has thrown for props with an unknown difficultyID and no settings,
\* and the snapshot of the game played before is still in place.
C17_Witness ==
  /\ thrown = UnknownDifficulty
  /\ "settings" \notin DOMAIN props
  /\ props.difficultyID = unknownID
  /\ movesCount = 1
  /\ gameState = winner

\* C19: the board and the proximity grid have exactly rows rows of exactly
\* columns cells, for the snapshot's rows and columns, in every state: also in
\* the snapshots of the difficulty tween and after a first reveal that
\* regenerates the board from props.
C19_GridsMatchDimensions ==
  /\ DOMAIN board = Cells(rows, columns)
  /\ DOMAIN proximities = Cells(rows, columns)

====
